---- MODULE Spec2Model ----
(***************************************************************************)
(* A model of the queue / playback core of the music bot:                  *)
(*   utils/queue_manager.py  QueueManager  (pending queue, history,        *)
(*                           shuffle / unshuffle, persisted snapshot)      *)
(*   cogs/music.py           Music         (advance protocol, pause,       *)
(*                           elapsed time, inactivity check, cleanup)      *)
(*   utils/ui_components.py  JumpModal, PlayPauseButton, StopButton        *)
(*   utils/music_helpers.py  Song, download_audio under its retry          *)
(*                           decorator                                     *)
(*                                                                         *)
(* Every QueueManager method body runs without a real suspension point     *)
(* (the lock is never contended, cache_manager.set never suspends), so a   *)
(* method is one atomic action.  Timestamps have a resolution of one tick: *)
(* time.time() and interaction.created_at read inside one handler fall in  *)
(* the same tick.                                                          *)
(***************************************************************************)
EXTENDS Integers, Sequences, FiniteSets, TLC

VARIABLES
    \* ---- QueueManager (utils/queue_manager.py) ----
    queue,            \* self.queue: sequence of Song objects (their ids)
    history,          \* self.history
    shuffle_mode,     \* self.shuffle_mode
    original_queue,   \* self.original_queue
    queue_state,      \* cache_manager.memory_cache['queue_state'] (the snapshot)
    file_path,        \* the Song objects whose file_path is set
    files,            \* the urls whose downloaded file is on disk (one file per video)
    delayed_cleanup,  \* the sleeping _delayed_cleanup tasks: <<song, time it wakes up>>
    result,           \* what the latest call returned or raised
    \* ---- Music cog (cogs/music.py) ----
    current_song,     \* self.current_song (None is 0)
    is_playing,       \* self.is_playing
    repeat_mode,      \* self.repeat_mode
    seek_position,    \* self.seek_position
    paused_time,      \* self.paused_time
    pause_start,      \* self.pause_start (None is NoneTime)
    start_time,       \* Song.start_time of every Song object (None is NoneTime)
    last_activity,    \* self.last_activity
    now_playing_message, \* self.now_playing_message is set
    auto_disconnect_task, \* self.auto_disconnect_task is set and still running
    download_queue,   \* self.download_queue: songs waiting for their download
    \* ---- collaborators ----
    voice,            \* ctx.voice_client: "none", "idle", "playing", "paused"
    now,              \* time.time(), in ticks
    pc,               \* position of the advance protocol (_play_next)
    depth,            \* how many _play_next calls are nested, up to MaxRecursion
    download_progress, \* the Song objects whose download_progress is 1.0
    notice,           \* the latest answer of the cog to a request, or its refusal of a seek
    from_playlist,    \* the Song objects that extract_playlist created
    memory_cache,     \* cache_manager.memory_cache, its entries other than 'queue_state'
    in_gather,        \* how many _play_next calls started a playback and still wait
                      \* in their gather for the now-playing message to be sent
    queue_lock,       \* QueueManager._queue_lock is held
    calls,            \* the calls of QueueManager methods that concurrent tasks make
    calls_made,       \* how many such calls were made, up to MaxCalls
    update_task,      \* self.update_task is a task that has not terminated
    replaced_task,    \* _start_update_task has replaced a task that was still running
    \* ---- history variable of the checks ----
    download,         \* the latest direct call of download_audio
    \* ---- history variable of the checks ----
    shuffle_call      \* the queue and flag at the latest shuffle() call

qvars == <<queue, history, shuffle_mode, original_queue, queue_state, file_path, files,
           delayed_cleanup>>
tvars == <<seek_position, paused_time, pause_start, start_time, last_activity, now>>
svars == <<current_song, is_playing, repeat_mode, now_playing_message,
           auto_disconnect_task, download_queue, voice, pc, depth>>
lvars == <<queue_lock, calls, calls_made>>
uvars == <<update_task, replaced_task>>
rvars == <<download_progress, notice, from_playlist, download, memory_cache, in_gather,
           lvars>>
dvars == <<rvars, uvars>>
vars == <<qvars, tvars, svars, dvars, result, shuffle_call>>

----------------------------------------------------------------------------
(* Bounds of the model *)

\* settings.max_queue_size (1..500, default 100), scaled down
max_size == 2
\* QueueManager.max_history (100 in the code), scaled down
max_history == 1

\* the Song objects of a run
Songs == {1, 2, 3}
NoSong == 0
NoneTime == -1

\* Song.url: songs 1 and 2 are two requests of the same video
url(s) == (s + 1) \div 2
\* Song.requester.id: two users
requester_id(s) == s % 2
Users == {0, 1}

\* Song.to_dict: the serialised identity of a track (no file_path, no start_time)
to_dict(s) == [url |-> url(s), requester_id |-> requester_id(s)]

Range(f) == {f[i] : i \in DOMAIN f}

\* list.insert(position, song) with 0 <= position <= len(list)
Insert(q, position, s) ==
    SubSeq(q, 1, position) \o <<s>> \o SubSeq(q, position + 1, Len(q))

\* list.pop(index) with 0 <= index < len(list): the remaining list
Pop(q, index) == SubSeq(q, 1, index) \o SubSeq(q, index + 2, Len(q))

\* the orders random.shuffle can leave a list in
Shuffles(q) ==
    {[i \in 1..Len(q) |-> q[p[i]]] : p \in Permutations(1..Len(q))}

\* "if x:" and "x or y" on an Optional number: None and 0 are false
Truthy(x) == x # NoneTime /\ x # 0

\* what a call hands back: the exception it raised ("": none) and its return value
Ret(err, val) == [err |-> err, val |-> val]

----------------------------------------------------------------------------
(* QueueManager *)

\* one hour, in ticks: the ttl of the snapshot (ttl=3600 in _save_queue_state) and
\* the age beyond which load_queue_state skips a snapshot (timedelta(hours=1))
StaleAfter == 12

\* a snapshot stored with the ttl of the track-info entries (half an hour)
Snapshot_HalfHour(q, flag, t) ==
    [songs |-> [i \in 1..Len(q) |-> to_dict(q[i])], shuffle_mode |-> flag, timestamp |-> t,
     expires_at |-> t + (StaleAfter \div 2)]

\* _save_queue_state: the entry cache_manager.set writes under 'queue_state' at
\* time t, its value (songs, shuffle_mode, timestamp) and its expiry time
Snapshot(q, flag, t) ==
    [songs |-> [i \in 1..Len(q) |-> to_dict(q[i])], shuffle_mode |-> flag, timestamp |-> t,
     expires_at |-> t + StaleAfter]

NoSnapshot ==
    [songs |-> <<>>, shuffle_mode |-> FALSE, timestamp |-> NoneTime, expires_at |-> NoneTime]

\* a capacity test that is off by one
IsFull_OffByOne(q) == Len(q) > max_size

\* add_song's capacity test
IsFull(q) == Len(q) >= max_size

\* add_song's placement: insert at a valid position, append otherwise
Place(q, s, position) ==
    IF position # NoneTime /\ 0 <= position /\ position <= Len(q)
    THEN Insert(q, position, s)
    ELSE Append(q, s)

\* a loop without the capacity test
Fitting_NoCap(q, songs) == songs

\* a loop that adds a playlist only as a whole
Fitting_AllOrNothing(q, songs) == IF Len(songs) <= max_size - Len(q) THEN songs ELSE <<>>

\* add_songs' loop: the prefix of songs that fits
Fitting(q, songs) ==
    SubSeq(songs, 1, IF max_size - Len(q) < 0 THEN 0
                     ELSE IF Len(songs) < max_size - Len(q) THEN Len(songs)
                     ELSE max_size - Len(q))

\* a history that takes the new entry at its old end
AddToHistory_Oldest(h, s) ==
    IF Len(h) + 1 > max_history THEN Tail(<<s>> \o h) ELSE <<s>> \o h

\* _add_to_history: append, then drop the oldest entry beyond max_history
AddToHistory(h, s) ==
    IF Len(h) + 1 > max_history THEN Tail(Append(h, s)) ELSE Append(h, s)

\* _add_to_history: the entry whose _delayed_cleanup task is created, if any
Evicted(h) == IF Len(h) + 1 > max_history THEN {Head(h)} ELSE {}

\* Song.is_downloaded: file_path is set and the file exists
is_downloaded(s, paths, disk) == s \in paths /\ url(s) \in disk

\* a cleanup that deletes nothing
cleanup_Nothing(songs, paths, disk) == disk

\* Song.cleanup on each song of a set: unlink the files of those that are downloaded
cleanup(songs, paths, disk) ==
    disk \ {url(s) : s \in {x \in songs : is_downloaded(x, paths, disk)}}

\* Song.cleanup deletes a file only if file_path is set.  A Song object gets its
\* file_path only from the download of its request, so the _delayed_cleanup task
\* of a song with no file_path and no download under way can never delete anything
\* and is not tracked.
Cleanable(paths, downloads) == paths \cup Range(downloads)

\* the delay of _delayed_cleanup (300 s in the code), scaled down to ticks
delay == 2

\* a cleanup task that does not sleep
DelayedCleanupTasks_NoSleep(h, paths, downloads, t) ==
    {<<s, t>> : s \in Evicted(h) \cap Cleanable(paths, downloads)}

\* asyncio.create_task(self._delayed_cleanup(old_song)) of _add_to_history at time t
DelayedCleanupTasks(h, paths, downloads, t) ==
    {<<s, t + delay>> : s \in Evicted(h) \cap Cleanable(paths, downloads)}

\* a filter that restores the saved order in reverse
Restored_Reversed(orig, q) ==
    LET kept == SelectSeq(orig, LAMBDA s : url(s) \in {url(q[i]) : i \in DOMAIN q})
    IN  [i \in 1..Len(kept) |-> kept[Len(kept) + 1 - i]]

\* unshuffle's filter: the saved order, keeping the songs whose url is still queued
Restored(orig, q) ==
    SelectSeq(orig, LAMBDA s : url(s) \in {url(q[i]) : i \in DOMAIN q})

\* the keyword arguments the Song dataclass accepts
SongFields == {"url", "title", "duration", "requester", "thumbnail", "file_path",
               "start_time", "added_at", "download_progress", "uploader", "view_count",
               "like_count", "upload_date", "description", "tags"}

\* load_queue_state's loop body succeeds for a dict d: the requester resolves and
\* Song(**d), with 'requester' added, gets no unexpected keyword
Restorable(d, resolvable) ==
    /\ d.requester_id \in resolvable
    /\ (DOMAIN d \cup {"requester"}) \subseteq SongFields

\* load_queue_state: the Song objects rebuilt from the snapshot
RestoredSongs(data, resolvable) ==
    LET kept == SelectSeq(data.songs, LAMBDA d : Restorable(d, resolvable))
    IN  [i \in 1..Len(kept) |-> CHOOSE s \in Songs : to_dict(s) = kept[i]]

----------------------------------------------------------------------------
(* The history variable of the checks.  live: shuffle() was called with the
   flag clear, and since then the queue changed by shuffles and removals only;
   q: the queue at that call; immediate: that call was the latest operation;
   undone: the latest operation was an unshuffle() that came right after it;
   shuffles: how many shuffle() calls in a row, the one with the flag clear
   first, were the latest operations (counted up to 2); restored: the latest
   operation was an unshuffle() that came right after that many shuffle()
   calls. *)

NoCall == [q |-> <<>>, live |-> FALSE, immediate |-> FALSE, undone |-> FALSE,
           shuffles |-> 0, restored |-> 0]
Called ==
    IF ~shuffle_mode
    THEN [q |-> queue, live |-> TRUE, immediate |-> TRUE, undone |-> FALSE,
          shuffles |-> 1, restored |-> 0]
    ELSE [shuffle_call EXCEPT !.immediate = FALSE, !.undone = FALSE, !.restored = 0,
                              !.shuffles = IF @ = 0 THEN 0 ELSE 2]
Later == [shuffle_call EXCEPT !.immediate = FALSE, !.undone = FALSE, !.shuffles = 0,
                              !.restored = 0]
Undone == [NoCall EXCEPT !.undone = shuffle_call.immediate,
                         !.restored = shuffle_call.shuffles]

\* shuffle() that saves the order at every call
shuffle_SaveAlways(q, orig, flag, p) ==
    IF Len(q) <= 1
    THEN [queue |-> q, original_queue |-> orig, shuffle_mode |-> flag]
    ELSE [queue |-> [i \in 1..Len(q) |-> q[p[i]]],
          original_queue |-> q,
          shuffle_mode |-> TRUE]

\* shuffle() on the fields it touches; p is the permutation random.shuffle draws
shuffle(q, orig, flag, p) ==
    IF Len(q) <= 1
    THEN [queue |-> q, original_queue |-> orig, shuffle_mode |-> flag]
    ELSE [queue |-> [i \in 1..Len(q) |-> q[p[i]]],
          original_queue |-> IF ~flag THEN q ELSE orig,
          shuffle_mode |-> TRUE]

\* unshuffle() on the fields it touches
unshuffle(q, orig, flag) ==
    IF flag /\ orig # <<>>
    THEN [queue |-> Restored(orig, q), original_queue |-> <<>>, shuffle_mode |-> FALSE]
    ELSE [queue |-> q, original_queue |-> orig, shuffle_mode |-> flag]

----------------------------------------------------------------------------
(* QueueManager methods.  Each leaves the Music cog's fields alone. *)

Positions == {NoneTime} \cup (0..(max_size + 1))
Indexes == (0 - 1)..max_size
\* the playlists handed to add_songs: runs of consecutive catalogue entries, from
\* one track up to one more than the capacity
Batches ==
    {[i \in 1..n |-> ((k + i) % Cardinality(Songs)) + 1] :
        k \in 0..(Cardinality(Songs) - 1), n \in 1..(max_size + 1)}

\* add_song(song, position): QueueFullError on a full queue, else insert and save
AddSong ==
    \E s \in Songs, position \in Positions :
        /\ IF IsFull(queue)
           THEN /\ result' = Ret("QueueFullError", 0)
                /\ shuffle_call' = Later
                /\ UNCHANGED <<queue, queue_state>>
           ELSE /\ queue' = Place(queue, s, position)
                /\ queue_state' = Snapshot(queue', shuffle_mode, now)
                /\ result' = Ret("", 1)
                /\ shuffle_call' = NoCall
        /\ UNCHANGED <<history, shuffle_mode, original_queue, file_path, files, delayed_cleanup,
                       tvars, svars, dvars>>

\* add_songs(songs): append while there is room, save if anything was added
AddSongsOf(songs) ==
    LET fit == Fitting(queue, songs) IN
    /\ queue' = queue \o fit
    /\ queue_state' = IF Len(fit) > 0 THEN Snapshot(queue', shuffle_mode, now)
                      ELSE queue_state
    /\ result' = Ret("", Len(fit))
    /\ shuffle_call' = IF Len(fit) > 0 THEN NoCall ELSE Later
    /\ UNCHANGED <<history, shuffle_mode, original_queue, file_path, files, delayed_cleanup,
                   tvars, svars, dvars>>

\* add_songs on the playlists of the model
AddSongs == \E songs \in Batches : AddSongsOf(songs)

\* get_next_song(): pop the head into history, save; None on an empty queue
GetNextSong ==
    /\ IF queue = <<>>
       THEN /\ result' = Ret("", NoSong)
            /\ shuffle_call' = Later
            /\ UNCHANGED <<queue, history, queue_state, delayed_cleanup>>
       ELSE /\ queue' = Tail(queue)
            /\ history' = AddToHistory(history, Head(queue))
            /\ delayed_cleanup' = delayed_cleanup \cup
                    DelayedCleanupTasks(history, file_path, download_queue, now)
            /\ queue_state' = Snapshot(queue', shuffle_mode, now)
            /\ result' = Ret("", Head(queue))
            /\ shuffle_call' = Later
    /\ UNCHANGED <<shuffle_mode, original_queue, file_path, files, tvars, svars, dvars>>

\* remove_song(index)
RemoveSong ==
    \E index \in Indexes :
        /\ IF 0 <= index /\ index < Len(queue)
           THEN /\ queue' = Pop(queue, index)
                /\ queue_state' = Snapshot(queue', shuffle_mode, now)
                /\ result' = Ret("", queue[index + 1])
                /\ shuffle_call' = Later
           ELSE /\ result' = Ret("", NoSong)
                /\ shuffle_call' = Later
                /\ UNCHANGED <<queue, queue_state>>
        /\ UNCHANGED <<history, shuffle_mode, original_queue, file_path, files, delayed_cleanup,
                       tvars, svars, dvars>>

\* move_song(from_index, to_index)
MoveSong ==
    \E from_index \in Indexes, to_index \in Indexes :
        /\ IF /\ 0 <= from_index /\ from_index < Len(queue)
              /\ 0 <= to_index /\ to_index < Len(queue)
           THEN /\ queue' = Insert(Pop(queue, from_index), to_index, queue[from_index + 1])
                /\ queue_state' = Snapshot(queue', shuffle_mode, now)
                /\ result' = Ret("", 1)
                /\ shuffle_call' = NoCall
           ELSE /\ result' = Ret("", 0)
                /\ shuffle_call' = Later
                /\ UNCHANGED <<queue, queue_state>>
        /\ UNCHANGED <<history, shuffle_mode, original_queue, file_path, files, delayed_cleanup,
                       tvars, svars, dvars>>

\* clear(): delete the pending songs' files, empty the queue and the saved order
Clear ==
    /\ files' = cleanup(Range(queue), file_path, files)
    /\ queue' = <<>>
    /\ original_queue' = <<>>
    /\ shuffle_mode' = FALSE
    /\ queue_state' = Snapshot(queue', shuffle_mode', now)
    /\ result' = Ret("", 0)
    /\ shuffle_call' = NoCall
    /\ UNCHANGED <<history, file_path, delayed_cleanup, tvars, svars, dvars>>

\* shuffle(): nothing on 0 or 1 songs; else save the order once, permute, save
Shuffle ==
    \E p \in Permutations(1..Len(queue)) :
        LET after == shuffle(queue, original_queue, shuffle_mode, p) IN
        /\ queue' = after.queue
        /\ original_queue' = after.original_queue
        /\ shuffle_mode' = after.shuffle_mode
        /\ queue_state' = IF Len(queue) <= 1 THEN queue_state
                          ELSE Snapshot(queue', shuffle_mode', now)
        /\ result' = Ret("", 0)
        /\ shuffle_call' = Called
        /\ UNCHANGED <<history, file_path, files, delayed_cleanup, tvars, svars, dvars>>

\* unshuffle(): with the flag set and a saved order, restore it filtered by url
Unshuffle ==
    LET after == unshuffle(queue, original_queue, shuffle_mode) IN
    /\ queue' = after.queue
    /\ original_queue' = after.original_queue
    /\ shuffle_mode' = after.shuffle_mode
    /\ queue_state' = IF shuffle_mode /\ original_queue # <<>>
                      THEN Snapshot(queue', shuffle_mode', now)
                      ELSE queue_state
    /\ result' = Ret("", 0)
    /\ shuffle_call' = Undone
    /\ UNCHANGED <<history, file_path, files, delayed_cleanup, tvars, svars, dvars>>

\* remove_user_songs(user_id)
RemoveUserSongs ==
    \E user_id \in Users :
        LET kept == SelectSeq(queue, LAMBDA s : requester_id(s) # user_id)
            removed_count == Len(queue) - Len(kept)
        IN  /\ queue' = kept
            /\ queue_state' = IF removed_count > 0 THEN Snapshot(queue', shuffle_mode, now)
                              ELSE queue_state
            /\ result' = Ret("", removed_count)
            /\ shuffle_call' = Later
            /\ UNCHANGED <<history, shuffle_mode, original_queue, file_path, files,
                           delayed_cleanup, tvars, svars, dvars>>

\* load_queue_state(bot), where bot.get_user resolves the ids in `resolvable`.
\* cache_manager.get hands out the snapshot only before its expiry time and deletes
\* it otherwise; a snapshot older than one hour is skipped; else the queue and the
\* flag are replaced by what the loop rebuilt
LoadQueueStateOf(resolvable) ==
    /\ IF queue_state = NoSnapshot
       THEN /\ shuffle_call' = Later
            /\ UNCHANGED <<queue, shuffle_mode, queue_state>>
       ELSE IF queue_state.expires_at <= now
       THEN /\ queue_state' = NoSnapshot
            /\ shuffle_call' = Later
            /\ UNCHANGED <<queue, shuffle_mode>>
       ELSE IF now - queue_state.timestamp > StaleAfter
       THEN /\ shuffle_call' = Later
            /\ UNCHANGED <<queue, shuffle_mode, queue_state>>
       ELSE /\ queue' = RestoredSongs(queue_state, resolvable)
            /\ shuffle_mode' = queue_state.shuffle_mode
            /\ shuffle_call' = NoCall
            /\ UNCHANGED queue_state
    /\ result' = Ret("", 0)
    /\ UNCHANGED <<history, original_queue, file_path, files, delayed_cleanup,
                   tvars, svars, dvars>>

LoadQueueState == \E resolvable \in SUBSET Users : LoadQueueStateOf(resolvable)

----------------------------------------------------------------------------
(* QueueManager methods called by concurrent tasks.  Every method runs its body
   under `async with self._queue_lock`.  Each await inside a body is taken as a
   point where the event loop may run another task: the body up to its first
   await is one step, the rest (the history entry and the save) with the release
   of the lock is another. *)

Tasks == {1, 2}
\* the calls that the tasks make in one run
MaxCalls == 5

\* the calls the tasks make: [op, x, y, songs]
MethodCalls ==
    {[op |-> "add_song", x |-> s, y |-> NoneTime, songs |-> <<>>] : s \in {1, 3}}
      \cup {[op |-> "add_songs", x |-> 0, y |-> 0, songs |-> <<2, 3>>]}
      \cup {[op |-> "remove_song", x |-> index, y |-> 0, songs |-> <<>>] : index \in {0, 1}}
      \cup {[op |-> "move_song", x |-> 0, y |-> 1, songs |-> <<>>]}
      \cup {[op |-> "remove_user_songs", x |-> user_id, y |-> 0, songs |-> <<>>] :
                user_id \in {1}}
      \cup {[op |-> name, x |-> 0, y |-> 0, songs |-> <<>>] :
                name \in {"get_next_song", "clear", "shuffle", "unshuffle"}}

\* the fields of the QueueManager that its methods change
Fields(q, h, flag, orig) ==
    [queue |-> q, history |-> h, shuffle_mode |-> flag, original_queue |-> orig]

NoFields == Fields(<<>>, <<>>, FALSE, <<>>)

NoCallYet == [pc |-> "idle", call |-> [op |-> "", x |-> 0, y |-> 0, songs |-> <<>>],
              before |-> NoFields, saves |-> FALSE, ret |-> Ret("", 0)]

\* a lock that lets everybody in
Free_Always(lock) == TRUE

\* asyncio.Lock: acquire() goes through when the lock is not held
Free(lock) == ~lock

\* what the body of a method makes of the fields st (p: the permutation that
\* random.shuffle draws), whether it saves, and what it returns or raises
Effect(c, p, st) ==
    LET q == st.queue
        Out(fields, saves, ret) == [fields |-> fields, saves |-> saves, ret |-> ret]
    IN  CASE c.op = "add_song" ->
               IF IsFull(q) THEN Out(st, FALSE, Ret("QueueFullError", 0))
               ELSE Out([st EXCEPT !.queue = Place(q, c.x, c.y)], TRUE, Ret("", 1))
          [] c.op = "add_songs" ->
               Out([st EXCEPT !.queue = q \o Fitting(q, c.songs)],
                   Len(Fitting(q, c.songs)) > 0, Ret("", Len(Fitting(q, c.songs))))
          [] c.op = "get_next_song" ->
               IF q = <<>> THEN Out(st, FALSE, Ret("", NoSong))
               ELSE Out([st EXCEPT !.queue = Tail(q),
                                   !.history = AddToHistory(st.history, Head(q))],
                        TRUE, Ret("", Head(q)))
          [] c.op = "remove_song" ->
               IF 0 <= c.x /\ c.x < Len(q)
                 THEN Out([st EXCEPT !.queue = Pop(q, c.x)], TRUE, Ret("", q[c.x + 1]))
                 ELSE Out(st, FALSE, Ret("", NoSong))
          [] c.op = "move_song" ->
               IF 0 <= c.x /\ c.x < Len(q) /\ 0 <= c.y /\ c.y < Len(q)
                 THEN Out([st EXCEPT !.queue = Insert(Pop(q, c.x), c.y, q[c.x + 1])],
                          TRUE, Ret("", 1))
                 ELSE Out(st, FALSE, Ret("", 0))
          [] c.op = "clear" ->
               Out(Fields(<<>>, st.history, FALSE, <<>>), TRUE, Ret("", 0))
          [] c.op = "shuffle" ->
               LET after == shuffle(q, st.original_queue, st.shuffle_mode, p) IN
               Out(Fields(after.queue, st.history, after.shuffle_mode,
                          after.original_queue),
                   Len(q) >= 2, Ret("", 0))
          [] c.op = "unshuffle" ->
               LET after == unshuffle(q, st.original_queue, st.shuffle_mode) IN
               Out(Fields(after.queue, st.history, after.shuffle_mode,
                          after.original_queue),
                   st.shuffle_mode /\ st.original_queue # <<>>, Ret("", 0))
          [] c.op = "remove_user_songs" ->
               LET kept == SelectSeq(q, LAMBDA s : requester_id(s) # c.x) IN
               Out([st EXCEPT !.queue = kept], Len(q) > Len(kept),
                   Ret("", Len(q) - Len(kept)))

LockFrame ==
    UNCHANGED <<file_path, tvars, svars, download_progress, notice, from_playlist,
                download, memory_cache, in_gather, uvars, shuffle_call>>

\* the lock is acquired and the body runs up to its first await
Locked(t, c) ==
    \E p \in Permutations(1..Len(queue)) :
        LET st == Fields(queue, history, shuffle_mode, original_queue)
            out == Effect(c, p, st)
        IN  /\ queue_lock' = TRUE
            /\ queue' = out.fields.queue
            /\ shuffle_mode' = out.fields.shuffle_mode
            /\ original_queue' = out.fields.original_queue
            /\ files' = IF c.op = "clear" THEN cleanup(Range(queue), file_path, files)
                         ELSE files
            /\ calls' = [calls EXCEPT ![t] = [pc |-> "locked", call |-> c, before |-> st,
                                              saves |-> out.saves, ret |-> out.ret]]
            /\ UNCHANGED <<history, queue_state, delayed_cleanup, result>>
            /\ LockFrame

\* a task calls a method and comes to its `async with self._queue_lock`: it goes
\* on into the body if the lock is free, and waits for the lock otherwise
MethodCalled(t) ==
    \E c \in MethodCalls :
        /\ calls[t].pc = "idle"
        /\ calls_made < MaxCalls
        /\ calls_made' = calls_made + 1
        /\ IF Free(queue_lock)
             THEN Locked(t, c)
             ELSE /\ calls' = [calls EXCEPT ![t] = [NoCallYet EXCEPT !.pc = "waiting",
                                                                     !.call = c]]
                  /\ UNCHANGED <<qvars, queue_lock, result>>
                  /\ LockFrame

\* a waiting task gets the lock that was released
MethodBody(t) ==
    /\ calls[t].pc = "waiting"
    /\ Free(queue_lock)
    /\ Locked(t, calls[t].call)
    /\ UNCHANGED calls_made

\* the rest of the body: get_next_song's _add_to_history, _save_queue_state on
\* the paths that save; then the lock is released and the call hands its value
\* (calls[t].ret) to the task that made it
MethodReturns(t) ==
    /\ calls[t].pc = "locked"
    /\ IF calls[t].call.op = "get_next_song" /\ calls[t].saves
         THEN /\ history' = AddToHistory(history, calls[t].ret.val)
              /\ delayed_cleanup' = delayed_cleanup \cup
                    DelayedCleanupTasks(history, file_path, download_queue, now)
         ELSE UNCHANGED <<history, delayed_cleanup>>
    /\ queue_state' = IF calls[t].saves THEN Snapshot(queue, shuffle_mode, now)
                      ELSE queue_state
    /\ queue_lock' = FALSE
    /\ calls' = [calls EXCEPT ![t] = NoCallYet]
    /\ UNCHANGED <<queue, shuffle_mode, original_queue, files, result, calls_made>>
    /\ LockFrame

----------------------------------------------------------------------------
(* CacheManager (utils/cache.py).  Its calls are made by search_youtube and by
   extract_playlist on behalf of requests; they are followed here as calls of their
   own.  An entry is its value and its expiry time (created_at is written and
   read by nothing). *)

\* the keys and the values of the entries
CacheKeys == {"search", "playlist"}
CacheValues == {11, 12}
None == 0

\* CacheManager.default_ttl: 3600 s, one hour
default_ttl == StaleAfter
\* the largest ttl handed to set, in ticks
MaxTtl == 2
\* the ttl arguments of set: none (None, the default of the parameter), or a number
Ttls == {NoneTime} \cup (0..MaxTtl)

NoEntries == [key \in {} |-> None]

\* an expiry test that still hands out an entry at its expiry time
Live_AtExpiry(entry, t) == entry.expires_at >= t

\* the test of get: the entry's expiry time lies ahead
Live(entry, t) == entry.expires_at > t

\* del self.memory_cache[key] for each key of a set
Without(cache, keys) == [key \in (DOMAIN cache) \ keys |-> cache[key]]

\* get(key) at time t: what it returns and what it leaves as the store
get(cache, key, t) ==
    IF key \in DOMAIN cache
      THEN IF Live(cache[key], t)
             THEN [value |-> cache[key].value, memory_cache |-> cache]
             ELSE [value |-> None, memory_cache |-> Without(cache, {key})]
      ELSE [value |-> None, memory_cache |-> cache]

\* set(key, value, ttl) at time t.  `ttl or self.default_ttl` takes the default
\* for every ttl that Python counts as false: None, and 0
set(cache, key, value, ttl, t) ==
    [k \in (DOMAIN cache) \cup {key} |->
        IF k = key
          THEN [value |-> value,
                expires_at |-> t + (IF Truthy(ttl) THEN ttl ELSE default_ttl)]
          ELSE cache[k]]

\* cleanup_expired at time t: the keys it removes
expired_keys(cache, t) == {key \in DOMAIN cache : cache[key].expires_at <= t}

CacheFrame ==
    UNCHANGED <<qvars, tvars, svars, download_progress, notice, from_playlist, download,
                in_gather, lvars, uvars, shuffle_call>>

CacheGetOf(key) ==
    LET out == get(memory_cache, key, now) IN
    /\ memory_cache' = out.memory_cache
    /\ result' = Ret("", out.value)
    /\ CacheFrame

CacheGet == \E key \in CacheKeys : CacheGetOf(key)

CacheSetOf(key, value, ttl) ==
    /\ memory_cache' = set(memory_cache, key, value, ttl, now)
    /\ result' = Ret("", None)
    /\ CacheFrame

CacheSet ==
    \E key \in CacheKeys, value \in CacheValues, ttl \in Ttls : CacheSetOf(key, value, ttl)

\* delete(key): whether the key was there
CacheDelete ==
    \E key \in CacheKeys :
        /\ memory_cache' = Without(memory_cache, {key})
        /\ result' = Ret("", IF key \in DOMAIN memory_cache THEN 1 ELSE 0)
        /\ CacheFrame

\* the cleanup command of the Admin cog: every file of the downloads directory is
\* deleted, then cleanup_expired removes the expired entries and counts them
AdminCleanup ==
    /\ files' = {}
    /\ memory_cache' = Without(memory_cache, expired_keys(memory_cache, now))
    /\ result' = Ret("", Cardinality(expired_keys(memory_cache, now)))
    /\ UNCHANGED <<queue, history, shuffle_mode, original_queue, queue_state, file_path,
                   delayed_cleanup, tvars, svars, download_progress, notice,
                   from_playlist, download, in_gather, lvars, uvars, shuffle_call>>

----------------------------------------------------------------------------
(* download_audio (utils/music_helpers.py) under its tenacity retry decorator *)

\* stop_after_attempt(2): the attempt after which the decorator gives up
stop_after_attempt == 2

\* what the underlying fetch of one attempt (download_func under wait_for) does:
\* "ok" returns the path of a file that is on disk, "missing" returns a path with
\* no file behind it, "timeout" exceeds download_timeout, "error" raises
Fetches == {"ok", "missing", "timeout", "error"}

\* the fetches of one call that are scripted, one more than the decorator lets
\* the call make: plan[i] is what the i-th fetch does, or would do
MaxPlan == stop_after_attempt + 1
Plans == [1..MaxPlan -> Fetches]
\* the plans whose fetches all do the same.  A call that succeeds at a later
\* attempt leaves the state of one that succeeds at once, so these plans give
\* every outcome a call has for the cog.
SteadyPlans == {[i \in 1..MaxPlan |-> f] : f \in Fetches}

\* a body without the test for a song that is downloaded already
body_NoEarlyReturn(s, paths, progress, disk, f) ==
    IF f = "ok"
    THEN [err |-> "", fetched |-> TRUE, file_path |-> paths \cup {s},
          download_progress |-> progress \cup {s}, files |-> disk \cup {url(s)}]
    ELSE [err |-> "AudioDownloadError", fetched |-> TRUE, file_path |-> paths,
          download_progress |-> progress, files |-> disk]

\* a body that takes the path the fetch returns without looking for the file
body_TrustsFetch(s, paths, progress, disk, f) ==
    IF is_downloaded(s, paths, disk)
    THEN [err |-> "", fetched |-> FALSE, file_path |-> paths,
          download_progress |-> progress, files |-> disk]
    ELSE IF f \in {"ok", "missing"}
    THEN [err |-> "", fetched |-> TRUE, file_path |-> paths \cup {s},
          download_progress |-> progress \cup {s},
          files |-> IF f = "ok" THEN disk \cup {url(s)} ELSE disk]
    ELSE [err |-> "AudioDownloadError", fetched |-> TRUE, file_path |-> paths,
          download_progress |-> progress, files |-> disk]

\* one run of download_audio's body for song s, its fetch doing f: the exception
\* raised ("": none, the song is returned), whether the fetch was made, and the
\* file_path and download_progress fields and the disk afterwards.  Every
\* failure (TimeoutError, an exception of the fetch, the AudioDownloadError for
\* the missing file) leaves the body as AudioDownloadError.  The cog passes no
\* progress_callback, so no progress hook is installed.
body(s, paths, progress, disk, f) ==
    IF is_downloaded(s, paths, disk)
    THEN [err |-> "", fetched |-> FALSE, file_path |-> paths,
          download_progress |-> progress, files |-> disk]
    ELSE IF f = "ok"
    THEN [err |-> "", fetched |-> TRUE, file_path |-> paths \cup {s},
          download_progress |-> progress \cup {s}, files |-> disk \cup {url(s)}]
    ELSE [err |-> "AudioDownloadError", fetched |-> TRUE, file_path |-> paths,
          download_progress |-> progress, files |-> disk]

\* the retry loop of the decorator from attempt n on, `raised` being the
\* exceptions of the attempts before: a body that returns ends the call; after a
\* body that raised, the call is given up with tenacity's RetryError if n has
\* reached stop_after_attempt (the decorator sets no reraise), else the body runs
\* again after the wait.  A failed body changes nothing, so the state between
\* two attempts is the state at the call.
RECURSIVE retrying(_, _, _, _, _, _, _)
retrying(s, paths, progress, disk, plan, n, raised) ==
    LET run == body(s, paths, progress, disk, plan[n]) IN
    IF run.err = ""
    THEN [err |-> "", val |-> s, attempts |-> n,
          fetches |-> (n - 1) + (IF run.fetched THEN 1 ELSE 0), raised |-> raised,
          file_path |-> run.file_path, download_progress |-> run.download_progress,
          files |-> run.files]
    ELSE IF n >= stop_after_attempt
    THEN [err |-> "RetryError", val |-> NoSong, attempts |-> n, fetches |-> n,
          raised |-> Append(raised, run.err),
          file_path |-> run.file_path, download_progress |-> run.download_progress,
          files |-> run.files]
    ELSE retrying(s, run.file_path, run.download_progress, run.files, plan, n + 1,
                  Append(raised, run.err))

\* download_audio(song) as its callers see it
download_audio(s, paths, progress, disk, plan) ==
    retrying(s, paths, progress, disk, plan, 1, <<>>)

NoDownload ==
    [song |-> NoSong, had_path |-> FALSE, had_file |-> FALSE,
     plan |-> [i \in 1..MaxPlan |-> "ok"], err |-> "", attempts |-> 0, fetches |-> 0,
     raised |-> <<>>, left_path |-> FALSE, left_file |-> FALSE, left_progress |-> FALSE]

\* a direct call download_audio(s) whose fetches follow plan.  `download` keeps
\* the song, whether its file_path was set and its file on disk at the call
\* (had_path, had_file), the plan, what the call raised, how many attempts and
\* fetches were made, the exceptions of the failed attempts, and the song's
\* file_path, file and download_progress = 1.0 at the return (left_...).
DownloadAudioOf(s, plan) ==
    LET out == download_audio(s, file_path, download_progress, files, plan) IN
    /\ file_path' = out.file_path
    /\ download_progress' = out.download_progress
    /\ files' = out.files
    /\ result' = Ret(out.err, out.val)
    /\ download' = [song |-> s, had_path |-> s \in file_path,
                    had_file |-> url(s) \in files, plan |-> plan,
                    err |-> out.err, attempts |-> out.attempts, fetches |-> out.fetches,
                    raised |-> out.raised, left_path |-> s \in out.file_path,
                    left_file |-> url(s) \in out.files,
                    left_progress |-> s \in out.download_progress]
    /\ UNCHANGED <<queue, history, shuffle_mode, original_queue, queue_state,
                   delayed_cleanup, tvars, svars, notice, from_playlist, memory_cache,
                   in_gather, lvars, uvars, shuffle_call>>

DownloadAudio == \E s \in Songs, plan \in Plans : DownloadAudioOf(s, plan)

\* Song.cleanup() on one song: its file is unlinked, its file_path stays set
SongCleanup ==
    \E s \in Songs :
        /\ files' = cleanup({s}, file_path, files)
        /\ UNCHANGED <<queue, history, shuffle_mode, original_queue, queue_state,
                       file_path, delayed_cleanup, tvars, svars, dvars, result,
                       shuffle_call>>

----------------------------------------------------------------------------
(* Music cog: elapsed time, voice client, cleanup *)

\* Song.duration, in ticks
duration(s) == s

\* time.time() when the cog is constructed; later than any duration, so that a
\* timestamp of the run is never 0 (which Python takes for "not set")
Epoch == 10
\* how far the clock of the model runs
MaxTicks == 3
\* settings.auto_disconnect_timeout (300 s, at least 60), scaled down to ticks
auto_disconnect_timeout == 2
\* the requests waiting in download_queue at one time
MaxDownloads == 1
\* the largest time a JumpModal is given
MaxSeek == 2
SeekTargets == 0..MaxSeek

\* the nesting of _play_next calls from which the interpreter may give up; deeper
\* nestings are not told apart
MaxRecursion == 2

Max(a, b) == IF a >= b THEN a ELSE b

\* get_current_time_seconds without the branch for a running pause
get_current_time_seconds_PauseCounted ==
    IF current_song # NoSong /\ Truthy(start_time[current_song])
      THEN Max(0, now - start_time[current_song] - paused_time + seek_position)
      ELSE seek_position

\* Music.get_current_time_seconds
get_current_time_seconds ==
    IF current_song # NoSong /\ Truthy(start_time[current_song])
      THEN LET elapsed == now - start_time[current_song] - paused_time
               running == IF Truthy(pause_start) THEN now - pause_start ELSE 0
           IN  Max(0, elapsed - running + seek_position)
      ELSE seek_position

\* the Song objects something still refers to
InUse ==
    Range(queue) \cup Range(history) \cup Range(original_queue)
      \cup Range(download_queue) \cup {task[1] : task \in delayed_cleanup}
      \cup {current_song}

\* VoiceClient.stop() and disconnect() end the player, whose thread then calls the
\* `after` callback of _play_song: a _play_next call is scheduled.  One advance is
\* followed at a time: the callback is dropped if an advance is under way.
AfterCallback(cont) ==
    IF voice \in {"playing", "paused"} /\ cont = "idle" THEN "ended" ELSE cont

\* a _stop_update_task that leaves the task running
stop_update_task_Nothing == update_task

\* _stop_update_task: the task is cancelled and awaited, so it has terminated
stop_update_task == FALSE

\* _start_update_task with the playing flag and the current track as the new task
\* finds them at its first step: the task that self.update_task refers to is
\* cancelled, without being awaited, and replaced by a new one, which goes on as
\* long as the flag is set and there is a current track
start_update_task(playing, song) ==
    /\ replaced_task' = (replaced_task \/ update_task)
    /\ update_task' = (playing /\ song # NoSong)

\* Music._cleanup.  `cont` is where the caller's advance stands when it returns.
\* Called by the inactivity task, auto_disconnect_task.cancel() cancels the running
\* task itself: CancelledError is raised at its next suspension, which is the
\* deletion of the now-playing message if there is one, and else lies inside
\* VoiceClient.disconnect(), after the player was stopped: the library may or may
\* not have dropped the voice client by then.
MusicCleanup(by_check, cont) ==
    /\ is_playing' = FALSE
    /\ auto_disconnect_task' = FALSE
    /\ current_song' = NoSong
    /\ seek_position' = 0
    /\ paused_time' = 0
    /\ pause_start' = NoneTime
    /\ update_task' = stop_update_task
    /\ depth' = IF cont = "idle" THEN 0 ELSE depth
    /\ IF by_check /\ now_playing_message
         THEN UNCHANGED <<now_playing_message, voice>> /\ pc' = cont
         ELSE /\ now_playing_message' = FALSE
              /\ pc' = AfterCallback(cont)
              /\ IF voice = "none" THEN voice' = "none"
                 ELSE IF by_check THEN voice' \in {"none", "idle"}
                 ELSE voice' = "none"

\* Music._play_next from the reset of the bookkeeping to the gather, on the pending
\* queue q; `origin` says who called it
play_next(q, origin) ==
    LET repeating == q = <<>> /\ repeat_mode /\ current_song # NoSong
        q1 == IF repeating THEN Place(q, current_song, NoneTime) ELSE q
    IN  IF q1 = <<>>
          THEN /\ MusicCleanup(FALSE, "idle")
               /\ queue' = q
               /\ UNCHANGED <<history, delayed_cleanup, queue_state>>
          ELSE /\ queue' = Tail(q1)
               /\ history' = AddToHistory(history, Head(q1))
               /\ delayed_cleanup' = delayed_cleanup \cup
                    DelayedCleanupTasks(history, file_path, download_queue, now)
               /\ queue_state' = Snapshot(Tail(q1), shuffle_mode, now)
               /\ current_song' = Head(q1)
               /\ seek_position' = 0
               /\ paused_time' = 0
               /\ pause_start' = NoneTime
               /\ pc' = IF repeating /\ origin = "ended" THEN "replay" ELSE "play"
               /\ update_task' = stop_update_task
               /\ UNCHANGED depth
               /\ UNCHANGED <<is_playing, auto_disconnect_task, now_playing_message,
                              voice>>


----------------------------------------------------------------------------
(* Music cog: commands, buttons and background tasks *)

\* play command with a single video (play, _ensure_voice_channel,
\* _handle_single_song): connect and start the inactivity task if there is no voice
\* client, then hand a new Song object to the download task.  No intro file is
\* installed.
PlayCommand ==
    \E s \in Songs :
        /\ s \notin InUse
        /\ Len(download_queue) < MaxDownloads
        /\ voice' = IF voice = "none" THEN "idle" ELSE voice
        /\ auto_disconnect_task' = (voice = "none" \/ auto_disconnect_task)
        /\ last_activity' = now
        /\ download_queue' = Append(download_queue, s)
        /\ file_path' = file_path \ {s}
        /\ download_progress' = download_progress \ {s}
        /\ start_time' = [start_time EXCEPT ![s] = NoneTime]
        /\ notice' = "accepted"
        /\ from_playlist' = from_playlist \ {s}
        /\ UNCHANGED <<queue, history, shuffle_mode, original_queue, queue_state, files,
                       delayed_cleanup, result, current_song, is_playing, repeat_mode,
                       seek_position, paused_time, pause_start, now_playing_message,
                       now, pc, depth, download, memory_cache, in_gather, lvars, uvars,
                       shuffle_call>>

\* play command with a playlist url (play, _ensure_voice_channel,
\* _handle_playlist): extract_playlist makes new Song objects, add_songs takes
\* those that fit, and each of these is handed to the download task as well
PlayPlaylist ==
    \E songs \in Batches :
        LET fit == Fitting(queue, songs) IN
        /\ Range(songs) \cap InUse = {}
        /\ Len(download_queue) + Len(fit) <= MaxDownloads
        /\ voice' = IF voice = "none" THEN "idle" ELSE voice
        /\ auto_disconnect_task' = (voice = "none" \/ auto_disconnect_task)
        /\ last_activity' = now
        /\ queue' = queue \o fit
        /\ queue_state' = IF Len(fit) > 0 THEN Snapshot(queue', shuffle_mode, now)
                          ELSE queue_state
        /\ result' = Ret("", Len(fit))
        /\ shuffle_call' = IF Len(fit) > 0 THEN NoCall ELSE Later
        /\ download_queue' = download_queue \o fit
        /\ file_path' = file_path \ Range(songs)
        /\ download_progress' = download_progress \ Range(songs)
        /\ start_time' = [s \in Songs |-> IF s \in Range(songs) THEN NoneTime
                                          ELSE start_time[s]]
        /\ notice' = "playlist_added"
        /\ from_playlist' = (from_playlist \ Range(songs)) \cup Range(fit)
        /\ UNCHANGED <<history, shuffle_mode, original_queue, files, delayed_cleanup,
                       current_song, is_playing, repeat_mode, seek_position,
                       paused_time, pause_start, now_playing_message, now, pc, depth,
                       download, memory_cache, in_gather, lvars, uvars>>

\* one round of _process_download_queue: download_audio, add_song, then _play_next
\* if nothing plays, else _update_now_playing; whatever is raised on the way, by
\* the download or by add_song, is answered with the download-failed message.
\* While the task waits in _play_next it takes no further request.
DownloadComplete ==
    /\ download_queue # <<>>
    /\ pc = "idle" \/ is_playing
    /\ download_queue' = Tail(download_queue)
    /\ UNCHANGED <<download, from_playlist, memory_cache, in_gather, lvars, replaced_task>>
    /\ LET song == Head(download_queue) IN
       \E out \in {download_audio(song, file_path, download_progress, files, plan) :
                      plan \in SteadyPlans} :
        /\ file_path' = out.file_path
        /\ download_progress' = out.download_progress
        /\ files' = out.files
        /\ UNCHANGED <<shuffle_mode, original_queue, start_time, last_activity, now,
                       repeat_mode>>
        /\ IF out.err # ""
             THEN /\ result' = Ret(out.err, 0)
                  /\ notice' = "download_failed"
                  /\ UNCHANGED <<queue, history, queue_state, delayed_cleanup,
                                 seek_position, paused_time, pause_start,
                                 current_song, is_playing, now_playing_message,
                                 auto_disconnect_task, voice, pc, depth, shuffle_call,
                                 update_task>>
           ELSE IF IsFull(queue)
             THEN /\ result' = Ret("QueueFullError", 0)
                  /\ notice' = "download_failed"
                  /\ UNCHANGED <<queue, history, queue_state, delayed_cleanup,
                                 seek_position, paused_time, pause_start,
                                 current_song, is_playing, now_playing_message,
                                 auto_disconnect_task, voice, pc, depth, shuffle_call,
                                 update_task>>
           ELSE /\ result' = Ret("", 1)
                /\ shuffle_call' = NoCall
                /\ UNCHANGED notice
                /\ IF ~is_playing
                     THEN play_next(Place(queue, song, NoneTime), "download")
                     ELSE /\ queue' = Place(queue, song, NoneTime)
                          /\ queue_state' = Snapshot(queue', shuffle_mode, now)
                          /\ now_playing_message' = (current_song # NoSong)
                          /\ UNCHANGED <<history, delayed_cleanup, seek_position,
                                         paused_time, pause_start, current_song,
                                         is_playing, auto_disconnect_task, voice,
                                         pc, depth, update_task>>

\* _play_next called by the `after` callback of the player, or by itself after a
\* playback that did not start
PlayNext ==
    /\ pc \in {"ended", "retry"}
    /\ play_next(queue, pc)
    /\ shuffle_call' = Later
    /\ UNCHANGED <<shuffle_mode, original_queue, file_path, files, start_time,
                   last_activity, now, repeat_mode, download_queue, result, rvars,
                   replaced_task>>

\* what _play_song needs to start the playback: a current song whose file is
\* there and a voice client that is not playing (VoiceClient.play raises if there
\* is no voice client or if it is playing already)
PlaybackStarts ==
    /\ current_song # NoSong
    /\ is_downloaded(current_song, file_path, files)
    /\ voice \in {"idle", "paused"}

\* the gather of _play_next: _play_song, _update_now_playing, _start_update_task.
\* If _play_song raises PlaybackError, _play_next calls itself from its exception
\* handler.  Nothing in the code limits that nesting.  What a deep nesting does
\* depends on the interpreter: it goes on (CPython 3.11 resumes a chain of
\* thousands of nested awaits), or a RecursionError, raised in the innermost
\* call, leaves every one of the nested handlers, and the advance is abandoned as
\* it stands.
PlaySong ==
    /\ pc \in {"play", "replay"}
    /\ now_playing_message' = (current_song # NoSong)
    /\ IF PlaybackStarts
         THEN /\ voice' = "playing"
              /\ is_playing' = TRUE
              /\ start_time' = [start_time EXCEPT ![current_song] = now]
              /\ last_activity' = now
              /\ pc' = "idle"
              /\ depth' = 0
              /\ start_update_task(TRUE, current_song)
         ELSE /\ IF depth < MaxRecursion
                   THEN pc' = "retry" /\ depth' = depth + 1
                   ELSE \/ pc' = "retry" /\ depth' = depth
                        \/ pc' = "idle" /\ depth' = 0
              /\ start_update_task(is_playing, current_song)
              /\ UNCHANGED <<voice, is_playing, start_time, last_activity>>
    /\ UNCHANGED <<qvars, seek_position, paused_time, pause_start, now, current_song,
                   repeat_mode, auto_disconnect_task, download_queue, result,
                   shuffle_call, rvars>>

\* the gather of _play_next when _play_song has started the playback and
\* _update_now_playing raises: message.delete() raises something other than
\* NotFound, or channel.send() raises (the bot may not write to the channel,
\* Discord answers with an error).  _start_update_task has run by then.  The
\* exception leaves the gather and _play_next calls itself from its handler;
\* self.now_playing_message is left as it was.
PublishFails ==
    /\ pc \in {"play", "replay"}
    /\ PlaybackStarts
    /\ voice' = "playing"
    /\ is_playing' = TRUE
    /\ start_time' = [start_time EXCEPT ![current_song] = now]
    /\ last_activity' = now
    /\ start_update_task(TRUE, current_song)
    /\ IF depth < MaxRecursion
         THEN pc' = "retry" /\ depth' = depth + 1
         ELSE \/ pc' = "retry" /\ depth' = depth
              \/ pc' = "idle" /\ depth' = 0
    /\ UNCHANGED <<qvars, seek_position, paused_time, pause_start, now, current_song,
                   repeat_mode, now_playing_message, auto_disconnect_task,
                   download_queue, result, shuffle_call, rvars>>

\* the player reaches the end of the file: the `after` callback schedules _play_next
TrackEnd ==
    /\ voice = "playing"
    /\ voice' = "idle"
    /\ pc' = AfterCallback(pc)
    /\ UNCHANGED <<depth, qvars, tvars, current_song, is_playing, repeat_mode,
                   now_playing_message, auto_disconnect_task, download_queue, result,
                   shuffle_call, dvars>>

\* the _play_next calls that may wait in their gather at one time
MaxInGather == 1

\* the gather of _play_next up to its suspension: _play_song has started the
\* playback, and _update_now_playing waits for Discord to take the message.  The
\* event loop runs whatever else is ready meanwhile.
GatherSuspends ==
    /\ pc \in {"play", "replay"}
    /\ PlaybackStarts
    /\ in_gather < MaxInGather
    /\ voice' = "playing"
    /\ is_playing' = TRUE
    /\ start_time' = [start_time EXCEPT ![current_song] = now]
    /\ last_activity' = now
    /\ pc' = "idle"
    /\ depth' = 0
    /\ in_gather' = in_gather + 1
    /\ start_update_task(TRUE, current_song)
    /\ UNCHANGED <<qvars, seek_position, paused_time, pause_start, now, current_song,
                   repeat_mode, now_playing_message, auto_disconnect_task,
                   download_queue, result, shuffle_call, download_progress, notice,
                   from_playlist, download, memory_cache, lvars>>

\* the message is sent: the gather is through and that _play_next call returns
GatherReturns ==
    /\ in_gather > 0
    /\ in_gather' = in_gather - 1
    /\ now_playing_message' = (current_song # NoSong)
    /\ UNCHANGED <<qvars, tvars, current_song, is_playing, repeat_mode,
                   auto_disconnect_task, download_queue, voice, pc, depth, result,
                   shuffle_call, download_progress, notice, from_playlist, download,
                   memory_cache, lvars, uvars>>

\* skip command (Music.skip) and SkipButton.callback: the command stops the player
\* only if there is a current song and counts as activity, the button always stops
Skip ==
    \E button \in BOOLEAN :
        /\ voice = "playing"
        /\ IF button \/ current_song # NoSong
             THEN voice' = "idle" /\ pc' = AfterCallback(pc) /\ UNCHANGED depth
             ELSE UNCHANGED <<voice, pc, depth>>
        /\ last_activity' = IF button THEN last_activity ELSE now
        /\ UNCHANGED <<qvars, seek_position, paused_time, pause_start, start_time, now,
                       current_song, is_playing, repeat_mode, now_playing_message,
                       auto_disconnect_task, download_queue, result, shuffle_call, dvars>>

\* pause command (Music.pause) and PlayPauseButton.callback: pause a playing voice
\* client, resume a paused one; only the command counts as activity
Pause ==
    \E button \in BOOLEAN :
        /\ voice # "none"
        /\ IF voice = "playing"
             THEN /\ voice' = "paused"
                  /\ pause_start' = now
                  /\ UNCHANGED paused_time
           ELSE IF voice = "paused"
             THEN /\ voice' = "playing"
                  /\ IF Truthy(pause_start)
                       THEN /\ paused_time' = paused_time + (now - pause_start)
                            /\ pause_start' = NoneTime
                       ELSE UNCHANGED <<paused_time, pause_start>>
           ELSE UNCHANGED <<voice, paused_time, pause_start>>
        /\ last_activity' = IF button THEN last_activity ELSE now
        /\ UNCHANGED <<qvars, seek_position, start_time, now, current_song, is_playing,
                       repeat_mode, now_playing_message, auto_disconnect_task,
                       download_queue, pc, depth, result, shuffle_call, dvars>>

\* the texts typed into a JumpModal: the parts between the colons, and whether
\* each of them is an integer literal
TimeTexts ==
    {[numeric |-> TRUE, parts |-> <<n>>] : n \in (0 - 1)..MaxSeek}
      \cup {[numeric |-> TRUE, parts |-> <<m, n>>] :
                m \in (0 - 1)..1, n \in {0 - 1, MaxSeek, 60}}
      \cup {[numeric |-> TRUE, parts |-> <<h, m, n>>] :
                h \in {0}, m \in {0, 60}, n \in {0 - 1, MaxSeek}}
      \cup {[numeric |-> FALSE, parts |-> <<0>>], [numeric |-> TRUE, parts |-> <<0, 0, 0, 0>>]}

\* a parser that takes a plain number of seconds with its sign
parse_time_input_NoSignTest(text) ==
    LET p == text.parts IN
    IF ~text.numeric THEN Ret("InvalidTimeFormatError", 0)
    ELSE IF Len(p) = 1 THEN Ret("", p[1])
    ELSE IF Len(p) = 2
      THEN IF p[1] < 0 \/ p[2] < 0 \/ p[2] >= 60
             THEN Ret("InvalidTimeFormatError", 0)
             ELSE Ret("", p[1] * 60 + p[2])
    ELSE IF Len(p) = 3
      THEN IF (\E i \in 1..3 : p[i] < 0) \/ p[2] >= 60 \/ p[3] >= 60
             THEN Ret("InvalidTimeFormatError", 0)
             ELSE Ret("", p[1] * 3600 + p[2] * 60 + p[3])
    ELSE Ret("InvalidTimeFormatError", 0)

\* parse_time_input: seconds, MM:SS or HH:MM:SS; InvalidTimeFormatError on a part
\* that is no integer, on a negative part, on minutes or seconds of 60 or more
\* next to a larger unit, and on more than three parts
parse_time_input(text) ==
    LET p == text.parts IN
    IF ~text.numeric THEN Ret("InvalidTimeFormatError", 0)
    ELSE IF Len(p) = 1
      THEN IF p[1] < 0 THEN Ret("InvalidTimeFormatError", 0) ELSE Ret("", p[1])
    ELSE IF Len(p) = 2
      THEN IF p[1] < 0 \/ p[2] < 0 \/ p[2] >= 60
             THEN Ret("InvalidTimeFormatError", 0)
             ELSE Ret("", p[1] * 60 + p[2])
    ELSE IF Len(p) = 3
      THEN IF (\E i \in 1..3 : p[i] < 0) \/ p[2] >= 60 \/ p[3] >= 60
             THEN Ret("InvalidTimeFormatError", 0)
             ELSE Ret("", p[1] * 3600 + p[2] * 60 + p[3])
    ELSE Ret("InvalidTimeFormatError", 0)

\* what JumpModal.on_submit requires before it seeks
JumpAccepted(target_seconds) ==
    /\ current_song # NoSong
    /\ target_seconds <= duration(current_song)
    /\ voice = "playing"

\* JumpModal.on_submit with a time that parses to target_seconds and is accepted:
\* the source is replaced by one that starts at the target, the timing is reset
JumpModal(target_seconds) ==
    /\ JumpAccepted(target_seconds)
    /\ seek_position' = target_seconds
    /\ start_time' = [start_time EXCEPT ![current_song] = now - target_seconds]
    /\ paused_time' = 0
    /\ pause_start' = NoneTime
    /\ UNCHANGED <<qvars, last_activity, now, svars, result, shuffle_call, dvars>>

\* the seeks to a well-formed time
Jump == \E target_seconds \in SeekTargets : JumpModal(target_seconds)

\* JumpModal.on_submit answers with an error message and returns
JumpRefused(message) ==
    /\ notice' = message
    /\ UNCHANGED <<qvars, tvars, svars, result, shuffle_call, download_progress,
                   from_playlist, download, memory_cache, in_gather, lvars, uvars>>

\* JumpModal.on_submit(interaction) with `text` typed into the modal
on_submit(text) ==
    LET target == parse_time_input(text) IN
    IF target.err # "" THEN JumpRefused("invalid_time")
    ELSE IF current_song = NoSong THEN JumpRefused("nothing_playing")
    ELSE IF target.val > duration(current_song) THEN JumpRefused("too_long")
    ELSE IF voice = "playing" THEN JumpModal(target.val)
    ELSE JumpRefused("nothing_playing")

\* the seeks to any time typed into the modal
JumpSubmit == \E text \in TimeTexts : on_submit(text)

\* stop command (Music.stop) and StopButton.callback
Stop ==
    /\ voice # "none"
    /\ MusicCleanup(FALSE, pc)
    /\ UNCHANGED <<qvars, start_time, last_activity, now, repeat_mode, download_queue,
                   result, shuffle_call, rvars, replaced_task>>

\* what _auto_disconnect_check finds when it wakes up and cleans up
Inactive ==
    /\ now - last_activity > auto_disconnect_timeout
    /\ ~is_playing \/ queue = <<>>

\* one round of _auto_disconnect_check that ends in _cleanup
AutoDisconnect ==
    /\ auto_disconnect_task
    /\ voice # "none"
    /\ Inactive
    /\ MusicCleanup(TRUE, pc)
    /\ UNCHANGED <<qvars, start_time, last_activity, now, repeat_mode, download_queue,
                   result, shuffle_call, rvars, replaced_task>>

\* repeat command (Music.repeat)
Repeat ==
    /\ repeat_mode' = ~repeat_mode
    /\ UNCHANGED <<qvars, tvars, current_song, is_playing, now_playing_message,
                   auto_disconnect_task, download_queue, voice, pc, depth, result,
                   shuffle_call, dvars>>

\* the clock.  A tick stands for minutes; the steps of an advance are coroutines
\* that are ready to run and take no such time.
Tick ==
    /\ now < Epoch + MaxTicks
    /\ pc = "idle"
    /\ now' = now + 1
    /\ UNCHANGED <<qvars, seek_position, paused_time, pause_start, start_time,
                   last_activity, svars, result, shuffle_call, dvars>>

\* _delayed_cleanup(song): five minutes after the eviction, delete the song's file
DelayedCleanup ==
    \E task \in delayed_cleanup :
        /\ now >= task[2]
        /\ delayed_cleanup' = delayed_cleanup \ {task}
        /\ files' = cleanup({task[1]}, file_path, files)
        /\ UNCHANGED <<queue, history, shuffle_mode, original_queue, queue_state,
                       file_path, tvars, svars, result, shuffle_call, dvars>>

\* the reload command of the Admin cog on the music extension, given while the
\* bot is in no voice channel and nothing is under way: cog_unload calls
\* cleanup_all (the refresh task, the download task and the inactivity task are
\* stopped, QueueManager.cleanup_all unlinks the files of the pending and the played
\* songs and empties the history), then a new Music cog with a new QueueManager
\* is constructed and cog_load calls load_queue_state on it.  The cache_manager of
\* utils.cache is not part of the extension and keeps its entries.
CogReloadOf(resolvable) ==
    /\ voice = "none"
    /\ pc = "idle"
    /\ in_gather = 0
    /\ ~queue_lock
    /\ files' = cleanup(Range(queue) \cup Range(history), file_path, files)
    /\ history' = <<>>
    /\ original_queue' = <<>>
    /\ IF queue_state = NoSnapshot
         THEN /\ queue' = <<>>
              /\ shuffle_mode' = FALSE
              /\ UNCHANGED queue_state
       ELSE IF queue_state.expires_at <= now
         THEN /\ queue' = <<>>
              /\ shuffle_mode' = FALSE
              /\ queue_state' = NoSnapshot
       ELSE IF now - queue_state.timestamp > StaleAfter
         THEN /\ queue' = <<>>
              /\ shuffle_mode' = FALSE
              /\ UNCHANGED queue_state
       ELSE /\ queue' = RestoredSongs(queue_state, resolvable)
            /\ shuffle_mode' = queue_state.shuffle_mode
            /\ UNCHANGED queue_state
    /\ current_song' = NoSong
    /\ is_playing' = FALSE
    /\ repeat_mode' = FALSE
    /\ now_playing_message' = FALSE
    /\ auto_disconnect_task' = FALSE
    /\ download_queue' = <<>>
    /\ seek_position' = 0
    /\ paused_time' = 0
    /\ pause_start' = NoneTime
    /\ last_activity' = now
    /\ depth' = 0
    /\ update_task' = stop_update_task
    /\ result' = Ret("", 0)
    /\ shuffle_call' = NoCall
    /\ UNCHANGED <<file_path, delayed_cleanup, start_time, now, voice, pc, rvars,
                   replaced_task>>

CogReload == \E resolvable \in SUBSET Users : CogReloadOf(resolvable)

----------------------------------------------------------------------------
Init ==
    /\ queue = <<>>
    /\ history = <<>>
    /\ shuffle_mode = FALSE
    /\ original_queue = <<>>
    /\ queue_state = NoSnapshot
    /\ file_path = {}
    /\ files = {}
    /\ delayed_cleanup = {}
    /\ result = Ret("", 0)
    /\ current_song = NoSong
    /\ is_playing = FALSE
    /\ repeat_mode = FALSE
    /\ seek_position = 0
    /\ paused_time = 0
    /\ pause_start = NoneTime
    /\ start_time = [s \in Songs |-> NoneTime]
    /\ last_activity = Epoch
    /\ now_playing_message = FALSE
    /\ auto_disconnect_task = FALSE
    /\ download_queue = <<>>
    /\ voice = "none"
    /\ now = Epoch
    /\ pc = "idle"
    /\ depth = 0
    /\ download_progress = {}
    /\ notice = ""
    /\ from_playlist = {}
    /\ memory_cache = NoEntries
    /\ in_gather = 0
    /\ queue_lock = FALSE
    /\ calls = [t \in Tasks |-> NoCallYet]
    /\ calls_made = 0
    /\ update_task = FALSE
    /\ replaced_task = FALSE
    /\ download = NoDownload
    /\ shuffle_call = NoCall

QueueNext ==
    \/ AddSong
    \/ AddSongs
    \/ GetNextSong
    \/ RemoveSong
    \/ MoveSong
    \/ Clear
    \/ Shuffle
    \/ Unshuffle
    \/ RemoveUserSongs
    \/ LoadQueueState

QueueSpec == Init /\ [][QueueNext]_vars

\* the QueueManager of a bot whose music extension is reloaded now and then
ReloadNext ==
    \/ QueueNext
    \/ CogReload

ReloadSpec == Init /\ [][ReloadNext]_vars

\* the methods that add tracks to the queue and take tracks from it
EnqueueNext ==
    \/ AddSong
    \/ AddSongs
    \/ GetNextSong
    \/ RemoveSong
    \/ Clear

EnqueueSpec == Init /\ [][EnqueueNext]_vars

\* download_audio called on any song in any state of its file_path and its file
DownloadNext ==
    \/ DownloadAudio
    \/ SongCleanup

DownloadSpec == Init /\ [][DownloadNext]_vars

\* one track at a time: requests, playback, pause and seek, with the clock
PlaybackNext ==
    \/ PlayCommand
    \/ DownloadComplete
    \/ PlayNext
    \/ PlaySong
    \/ TrackEnd
    \/ Skip
    \/ Pause
    \/ Jump
    \/ Tick

PlaybackSpec == Init /\ [][PlaybackNext]_vars

\* a session with one request: its track is played, paused and resumed, and sought
\* in with whatever is typed into the modal
SeekNext ==
    \/ voice = "none" /\ PlayCommand
    \/ DownloadComplete
    \/ PlaySong
    \/ Pause
    \/ JumpSubmit
    \/ Tick

SeekSpec == Init /\ [][SeekNext]_vars

\* the life of a session: requests, the advance protocol, repeat, stop, the
\* inactivity check and the deferred deletion of files
SessionNext ==
    \/ PlayCommand
    \/ DownloadComplete
    \/ PlayNext
    \/ PlaySong
    \/ TrackEnd
    \/ Stop
    \/ AutoDisconnect
    \/ Repeat
    \/ Tick
    \/ DelayedCleanup

SessionSpec == Init /\ [][SessionNext]_vars

\* the advance protocol with nothing else going on while it runs.  _play_next and
\* the tasks of its gather are coroutines that are ready to run: the event loop
\* runs each of them, so neither step stays enabled forever without being taken.
AdvanceNext ==
    \/ PlayNext
    \/ PlaySong
    \/ pc = "idle" /\ PlayCommand
    \/ pc = "idle" /\ DownloadComplete
    \/ pc = "idle" /\ TrackEnd
    \/ pc = "idle" /\ Stop
    \/ pc = "idle" /\ Repeat

\* requests only: single tracks and playlists, their downloads and the advance
RequestNext ==
    \/ PlayCommand
    \/ PlayPlaylist
    \/ DownloadComplete
    \/ PlayNext
    \/ PlaySong
    \/ TrackEnd

RequestSpec == Init /\ [][RequestNext]_vars

\* requests, the end of a track and skips, with the event loop free to run other
\* handlers while a _play_next call waits in its gather.  The download task may
\* be the caller of that _play_next, so it takes no request meanwhile.
OverlapNext ==
    \/ PlayCommand
    \/ in_gather = 0 /\ DownloadComplete
    \/ PlayNext
    \/ PlaySong
    \/ GatherSuspends
    \/ GatherReturns
    \/ TrackEnd
    \/ Skip

OverlapSpec == Init /\ [][OverlapNext]_vars

\* two tasks that call the methods of one QueueManager at any time
LockNext ==
    \/ \E t \in Tasks : MethodCalled(t)
    \/ \E t \in Tasks : MethodBody(t)
    \/ \E t \in Tasks : MethodReturns(t)

LockSpec == Init /\ [][LockNext]_vars

\* the cache: its calls, the administrator's cleanup command, and the clock
CacheNext ==
    \/ CacheGet
    \/ CacheSet
    \/ CacheDelete
    \/ AdminCleanup
    \/ Tick

CacheSpec == Init /\ [][CacheNext]_vars

\* Time passes.  Nothing in the program calls get, set, delete or cleanup_expired
\* on a schedule: each is made on behalf of a command, which no user has to give.
FairCacheSpec == Init /\ [][CacheNext]_vars /\ WF_vars(Tick)

\* requests, and the clear button (ClearQueueButton calls QueueManager.clear)
ClearNext ==
    \/ PlayCommand
    \/ PlayPlaylist
    \/ DownloadComplete
    \/ PlayNext
    \/ PlaySong
    \/ TrackEnd
    \/ Clear

ClearSpec == Init /\ [][ClearNext]_vars

\* a session that is left alone for a while: one request at a time, the end of the
\* track, pause and resume, the inactivity check and the clock
InactivityNext ==
    \/ voice = "none" /\ PlayCommand
    \/ DownloadComplete
    \/ PlayNext
    \/ PlaySong
    \/ TrackEnd
    \/ Pause
    \/ AutoDisconnect
    \/ Tick

InactivitySpec == Init /\ [][InactivityNext]_vars

\* the sessions in which the position-refresh task is started and stopped:
\* requests, the advance with its gather, the end of a track, skips and stops
RefreshNext ==
    \/ PlayCommand
    \/ in_gather = 0 /\ DownloadComplete
    \/ PlayNext
    \/ PlaySong
    \/ GatherSuspends
    \/ GatherReturns
    \/ TrackEnd
    \/ Skip
    \/ Stop

RefreshSpec == Init /\ [][RefreshNext]_vars

\* tracks that are requested and played one after the other, each dequeue moving
\* one into the history, with the clock and the deferred deletion of files
HistoryNext ==
    \/ PlayCommand
    \/ DownloadComplete
    \/ PlayNext
    \/ PlaySong
    \/ TrackEnd
    \/ Tick
    \/ DelayedCleanup

HistorySpec == Init /\ [][HistoryNext]_vars

\* requests and the advance in a channel where the now-playing message cannot
\* always be published
PublishNext ==
    \/ PlayCommand
    \/ DownloadComplete
    \/ PlayNext
    \/ PlaySong
    \/ PublishFails
    \/ TrackEnd

PublishSpec == Init /\ [][PublishNext]_vars

FairAdvanceSpec ==
    Init /\ [][AdvanceNext]_vars /\ WF_vars(PlayNext) /\ WF_vars(PlaySong)

----------------------------------------------------------------------------
(* Claims about the QueueManager, checked under QueueSpec *)

\* C1: in every reachable state the pending queue holds at most max_size tracks.
C1_QueueWithinCapacity == Len(queue) <= max_size

\* C1 witness: a full queue that has been shuffled, with a track already played
C1_Witness == Len(queue) = max_size /\ shuffle_mode /\ history # <<>>

\* C2: add_song on a queue that holds max_size tracks raises QueueFullError and
\* changes neither the queue, the history, the shuffle flag, the saved order nor
\* the persisted snapshot.
C2_AddSongOnFullQueue ==
    [][(Len(queue) >= max_size /\ AddSong) =>
          /\ result'.err = "QueueFullError"
          /\ UNCHANGED <<queue, history, shuffle_mode, original_queue, queue_state>>]_vars

\* C2 witness: add_song has just raised QueueFullError on a full queue
C2_Witness ==
    result.err = "QueueFullError" /\ Len(queue) = max_size /\ queue_state # NoSnapshot

----------------------------------------------------------------------------
\* C3: after a successful seek to S on a playing track, get_current_time_seconds
\* at the same instant is S; and every second of playing without a pause adds one
\* second to it, so that d seconds later it is S + d.
C3_ElapsedAfterSeek ==
    [][/\ \A S \in SeekTargets :
            JumpModal(S) => get_current_time_seconds' = S
       /\ (/\ Tick
           /\ voice = "playing"
           /\ current_song # NoSong
           /\ Truthy(start_time[current_song])
           /\ ~Truthy(pause_start))
            => get_current_time_seconds' = get_current_time_seconds + 1]_vars

\* C4: for a current track, a pause, every tick of the clock while the pause lasts
\* and the resume all leave get_current_time_seconds as it was: the paused
\* interval is never counted, in the first pause/resume cycle of a track and in
\* every later one.
C4_PausedIntervalExcluded ==
    [][(/\ current_song # NoSong
        /\ Pause \/ (Tick /\ Truthy(pause_start)))
         => get_current_time_seconds' = get_current_time_seconds]_vars

\* C4 happens: a track that has played for a while is playing again after two
\* ticks spent paused
C4_Witness ==
    /\ voice = "playing"
    /\ current_song # NoSong
    /\ pause_start = NoneTime
    /\ paused_time >= 2
    /\ get_current_time_seconds >= 1

\* C5: when the current track T has ended with an empty pending queue and repeat
\* mode on, the advance re-enqueues T and dequeues it again (T is still current,
\* the queue is empty), and the playback of T that follows starts.
C5_RepeatPlaysTrackAgain ==
    [][/\ (PlayNext /\ pc = "ended" /\ queue = <<>> /\ repeat_mode
             /\ current_song # NoSong)
            => (current_song' = current_song /\ queue' = <<>> /\ pc' = "replay")
       /\ (PlaySong /\ pc = "replay" /\ current_song # NoSong /\ voice = "idle")
            => (voice' = "playing" /\ current_song' = current_song)]_vars

\* C6: the advance protocol always terminates: an advance that has begun comes to
\* its end, and if it ends without having started a playback it leaves the
\* session idle: no current track, not playing.
C6_AdvanceTerminates ==
    /\ (pc # "idle") ~> (pc = "idle")
    /\ [][(pc # "idle" /\ pc' = "idle" /\ ~(PlaySong /\ PlaybackStarts))
             => (current_song' = NoSong /\ ~is_playing')]_vars

\* C7: whenever cleanup is triggered, by the stop command, the stop button or the
\* inactivity check, it runs to completion: afterwards there is no current track,
\* is_playing is false, seek offset and paused time are 0, pause-start is unset
\* and the voice connection has been left.
C7_CleanupCompletes ==
    [][(Stop \/ AutoDisconnect)
         => /\ current_song' = NoSong
            /\ ~is_playing'
            /\ seek_position' = 0
            /\ paused_time' = 0
            /\ pause_start' = NoneTime
            /\ voice' = "none"]_vars

\* C8: the inactivity check disconnects only in a state where no track is playing,
\* the pending queue is empty and now minus last-activity exceeds the timeout.
C8_DisconnectOnlyWhenIdle ==
    [][AutoDisconnect
         => /\ ~is_playing
            /\ voice # "playing"
            /\ queue = <<>>
            /\ now - last_activity > auto_disconnect_timeout]_vars


\* shuffle() with permutation p, then at once unshuffle(), from the current state
ShuffleThenUnshuffle(p) ==
    LET a == shuffle(queue, original_queue, shuffle_mode, p)
    IN  unshuffle(a.queue, a.original_queue, a.shuffle_mode)

\* C9 as stated: from every state, shuffle() followed at once by unshuffle()
\* restores the queue to its order before the shuffle and leaves the flag clear.
C9_ShuffleUnshuffleFromAnyState ==
    \A p \in Permutations(1..Len(queue)) :
        /\ ShuffleThenUnshuffle(p).queue = queue
        /\ ~ShuffleThenUnshuffle(p).shuffle_mode

\* C9 amended: the same, for a shuffle() called while the shuffle flag is clear.
C9_ShuffleUnshuffleFlagClear ==
    ~shuffle_mode =>
        \A p \in Permutations(1..Len(queue)) :
            /\ ShuffleThenUnshuffle(p).queue = queue
            /\ ~ShuffleThenUnshuffle(p).shuffle_mode

\* C9 witness: unshuffle() has run right after a shuffle() called with the flag
\* clear, on a queue of two different tracks or more
C9_Witness ==
    shuffle_call.undone /\ Len(queue) >= 2 /\ Cardinality(Range(queue)) >= 2

\* the saved order restricted to the tracks still pending
StillPending(pre, q) == SelectSeq(pre, LAMBDA s : s \in Range(q))

\* C10: after a shuffle, removals only, and then unshuffle, the queue is the
\* pre-shuffle order restricted to the tracks still pending.
C10_UnshuffleAfterRemovals ==
    [][(shuffle_call.live /\ Unshuffle) =>
          queue' = StillPending(shuffle_call.q, queue)]_vars

\* the two queues hold the same tracks, each as often
SameTracks(q1, q2) ==
    /\ Len(q1) = Len(q2)
    /\ \A s \in Songs : Cardinality({i \in DOMAIN q1 : q1[i] = s})
                          = Cardinality({i \in DOMAIN q2 : q2[i] = s})

\* C11: a shuffle() called while the shuffle flag is set leaves the saved order
\* unchanged and the queue a permutation of what it was (every step either does
\* so or is no such call); an unshuffle() that follows two or more shuffle()
\* calls in a row restores the order from before the first of them.
C11_SavedOncePerSession ==
    [][/\ \/ (original_queue' = original_queue /\ SameTracks(queue, queue'))
          \/ ~(shuffle_mode /\ Shuffle)
       /\ (shuffle_call.shuffles = 2 /\ Unshuffle) =>
            (queue' = shuffle_call.q /\ ~shuffle_mode')]_vars

\* C11 witness: unshuffle() has run right after two shuffle() calls in a row on a
\* queue of two different tracks or more
C11_Witness ==
    shuffle_call.restored = 2 /\ Len(queue) >= 2 /\ Cardinality(Range(queue)) >= 2

Min(a, b) == IF a <= b THEN a ELSE b

\* C12: add_songs(songs) raises nothing, returns min(len(songs), max_size - size
\* before), and leaves the old queue followed by that many leading songs.
C12_AddSongsLongestPrefix ==
    [][\A songs \in Batches :
          AddSongsOf(songs) =>
              LET added == Min(Len(songs), max_size - Len(queue))
              IN  /\ result' = Ret("", added)
                  /\ queue' = queue \o SubSeq(songs, 1, added)]_vars

\* C12 witness: add_songs has filled an empty queue to its capacity
C12_Witness ==
    result = Ret("", max_size) /\ Len(queue) = max_size /\ shuffle_call = NoCall

\* C13: get_next_song on a non-empty queue returns the head, leaves the rest in
\* order and makes the head the newest history entry, the entries before it
\* being the latest of the old history; on an empty queue it returns None and
\* leaves queue and history alone.
C13_GetNextSong ==
    [][GetNextSong =>
          IF queue # <<>>
          THEN /\ result' = Ret("", Head(queue))
               /\ queue' = Tail(queue)
               /\ history' # <<>>
               /\ history'[Len(history')] = Head(queue)
               /\ SubSeq(history', 1, Len(history') - 1)
                    = SubSeq(history, Len(history) - Len(history') + 2, Len(history))
          ELSE /\ result' = Ret("", NoSong)
               /\ UNCHANGED <<queue, history>>]_vars

\* C13 witness: get_next_song has returned a track that is now the newest entry
\* of a full history, with tracks still pending
C13_Witness ==
    /\ Len(history) = max_history
    /\ result = Ret("", history[Len(history)])
    /\ queue # <<>>
    /\ shuffle_call.shuffles = 0

----------------------------------------------------------------------------
(* Claims about download_audio, checked under DownloadSpec *)

\* C14: download_audio on a track whose file_path is set and whose file exists
\* returns that track at the first attempt without a fetch, so a call that
\* follows a successful one makes no second download.
C14_DownloadIdempotent ==
    (download.song # NoSong /\ download.had_path /\ download.had_file) =>
        /\ download.fetches = 0
        /\ download.attempts = 1
        /\ download.err = ""
        /\ result = Ret("", download.song)

\* C14 witness: a call has returned a track that an earlier call had downloaded
\* (only a download sets file_path), without fetching
C14_Witness ==
    /\ download.song # NoSong
    /\ download.had_path /\ download.had_file
    /\ download.fetches = 0
    /\ download.song \in download_progress

\* C15: a call on a track that is not downloaded, whose fetch fails twice and
\* would succeed the third time, ends in success after exactly 3 attempts.
C15_ThirdAttemptSucceeds ==
    (/\ download.song # NoSong
     /\ ~(download.had_path /\ download.had_file)
     /\ download.plan[1] # "ok"
     /\ download.plan[2] # "ok"
     /\ download.plan[3] = "ok") =>
        (download.err = "" /\ download.attempts = 3)

\* C16: a call all of whose attempts fail makes a bounded number of attempts and
\* raises AudioDownloadError.
C16_ExhaustionIsAudioDownloadError ==
    (/\ download.song # NoSong
     /\ ~(download.had_path /\ download.had_file)
     /\ \A i \in 1..download.attempts : download.plan[i] # "ok") =>
        (download.attempts <= stop_after_attempt /\ download.err = "AudioDownloadError")

\* C17: a call that returns a track leaves its file_path set and its file on
\* disk; a call on a track with no file_path whose every fetch returns the path
\* of a missing file raises, each attempt failing with AudioDownloadError, and
\* leaves file_path unset and download_progress below 1.0.
C17_SuccessOnlyWithFile ==
    /\ (download.song # NoSong /\ download.err = "") =>
            (download.left_path /\ download.left_file)
    /\ (/\ download.song # NoSong
        /\ ~download.had_path
        /\ \A i \in 1..download.attempts : download.plan[i] = "missing") =>
            /\ download.err # ""
            /\ \A i \in DOMAIN download.raised :
                    download.raised[i] = "AudioDownloadError"
            /\ ~download.left_path
            /\ ~download.left_progress

\* C17 witness: a call on a track with no file_path has failed, every fetch
\* having returned the path of a missing file
C17_Witness ==
    /\ download.song # NoSong
    /\ ~download.had_path
    /\ download.attempts = stop_after_attempt
    /\ \A i \in 1..download.attempts : download.plan[i] = "missing"
    /\ download.err # ""
    /\ download.song \notin file_path

----------------------------------------------------------------------------
(* Claims about the Music cog's handling of requests and of the end of a session *)

\* C18: a stop or an auto-disconnect leaves the pending queue empty and no track
\* that was pending with its file on disk.
C18_StopClearsQueue ==
    [][(Stop \/ AutoDisconnect) =>
          /\ queue' = <<>>
          /\ \A s \in Range(queue) : ~is_downloaded(s, file_path', files')]_vars

\* C19: when the add_song of a single-track request raises QueueFullError, the
\* requester is told that the queue is full, and has not been told before that
\* the track was added.
C19_QueueFullReported ==
    [][(/\ download_queue # <<>>
        /\ Head(download_queue) \notin from_playlist
        /\ IsFull(queue)
        /\ result'.err = "QueueFullError"
        /\ DownloadComplete) =>
            (notice # "accepted" /\ notice' = "QueueFull")]_vars

Urls(q) == {url(q[i]) : i \in DOMAIN q}

\* C20: a track inserted into the pending queue has a url that no pending track
\* has (for add_songs, no pending track and no track inserted before it), and a
\* track appended to the history has a url that no history entry has.
C20_UniqueUrlAtInsertion ==
    [][/\ \A s \in Songs, position \in 0..Len(queue) :
            queue' = Insert(queue, position, s) => url(s) \notin Urls(queue)
       /\ \A songs \in Batches :
            AddSongsOf(songs) =>
                \A i \in 1..Len(Fitting(queue, songs)) :
                    url(songs[i]) \notin Urls(queue \o SubSeq(songs, 1, i - 1))
       /\ (history' # history /\ history' # <<>>) =>
            url(history'[Len(history')]) \notin Urls(history)]_vars

----------------------------------------------------------------------------
(* Claims about the files of the tracks *)

\* C21: in every reachable state a Song whose file_path is set has
\* download_progress 1.0 and its file on disk (so a file deleted by Song.cleanup
\* leaves no file_path and no download_progress behind).
C21_PathImpliesProgressAndFile ==
    \A s \in file_path : s \in download_progress /\ url(s) \in files

----------------------------------------------------------------------------
(* Claims about the persisted snapshot *)

\* the entry under 'queue_state' lists the pending tracks in queue order, with the
\* current shuffle flag, and expires one hour from now
SnapshotIsCurrent ==
    /\ queue_state.songs = [i \in 1..Len(queue) |-> to_dict(queue[i])]
    /\ queue_state.shuffle_mode = shuffle_mode
    /\ queue_state.expires_at = now + StaleAfter

\* C22 as stated: after every completed add_song, add_songs that added a track,
\* get_next_song, remove_song, move_song, clear, shuffle, unshuffle and
\* remove_user_songs that removed a track, the snapshot is current.
C22_SnapshotAfterEveryOperation ==
    [][SnapshotIsCurrent' \/
       ~(\/ result'.err = "" /\ AddSong
         \/ result'.val > 0 /\ AddSongs
         \/ GetNextSong
         \/ RemoveSong
         \/ MoveSong
         \/ Clear
         \/ Shuffle
         \/ Unshuffle
         \/ result'.val > 0 /\ RemoveUserSongs)]_vars

\* C22, amended: the snapshot is current after every operation that got past its
\* early return: add_song that returned, add_songs that added a track,
\* get_next_song that returned a track, remove_song and move_song with valid
\* indexes, clear, shuffle of two or more tracks, unshuffle with the flag set and
\* a saved order, remove_user_songs that removed a track.
C22_SnapshotAfterMutation ==
    [][SnapshotIsCurrent' \/
       ~(\/ result'.err = "" /\ AddSong
         \/ result'.val > 0 /\ AddSongs
         \/ queue # <<>> /\ GetNextSong
         \/ result'.val # NoSong /\ RemoveSong
         \/ result'.val = 1 /\ MoveSong
         \/ Clear
         \/ Len(queue) >= 2 /\ Shuffle
         \/ shuffle_mode /\ original_queue # <<>> /\ Unshuffle
         \/ result'.val > 0 /\ RemoveUserSongs)]_vars

\* a shuffled queue of two tracks has been saved, flag and order
C22_Witness ==
    /\ Len(queue) = 2
    /\ shuffle_mode
    /\ original_queue # queue
    /\ SnapshotIsCurrent

\* C23: load_queue_state on a snapshot younger than one hour leaves as the pending
\* queue the snapshot's tracks whose requester resolves, in snapshot order, none
\* with a file_path.
C23_RestoreKeepsResolvable ==
    [][\A resolvable \in SUBSET Users :
          (/\ queue_state # NoSnapshot
           /\ now - queue_state.timestamp < StaleAfter
           /\ LoadQueueStateOf(resolvable)) =>
              /\ [i \in 1..Len(queue') |-> to_dict(queue'[i])] =
                    SelectSeq(queue_state.songs, LAMBDA d : d.requester_id \in resolvable)
              /\ Range(queue') \cap file_path' = {}]_vars

----------------------------------------------------------------------------
(* Claims about the controls of a session *)

\* C24: every control action of a user (here play, pause and resume, skip and seek,
\* as a command or through a button or modal) sets last_activity to the current
\* time.  (A skip through the button is the same step as the end of the track; it
\* is told apart from it only where it counts as activity.)
C24_ControlsCountAsActivity ==
    [][(PlayCommand \/ Pause \/ (Skip /\ ~TrackEnd) \/ Jump) => last_activity' = now']_vars

\* the time a text stands for, read as seconds, MM:SS or HH:MM:SS
Seconds(p) ==
    IF Len(p) = 1 THEN p[1]
    ELSE IF Len(p) = 2 THEN p[1] * 60 + p[2]
    ELSE p[1] * 3600 + p[2] * 60 + p[3]

\* C25: a seek to a time that is negative or greater than the duration of the
\* current track is answered with an error message and leaves seek_position, the
\* start timestamp, paused_time, pause_start and the voice client as they were.
C25_SeekOutOfRangeRefused ==
    [][\A text \in TimeTexts :
          (/\ current_song # NoSong
           /\ text.numeric
           /\ Len(text.parts) <= 3
           /\ \/ \E i \in DOMAIN text.parts : text.parts[i] < 0
              \/ Seconds(text.parts) > duration(current_song)
           /\ on_submit(text)) =>
              /\ notice' \in {"invalid_time", "too_long"}
              /\ UNCHANGED <<seek_position, start_time, paused_time, pause_start, voice>>]_vars

\* a seek beyond the end of the track was refused after an accepted seek and
\* during a pause
C25_Witness ==
    /\ notice = "too_long"
    /\ current_song # NoSong
    /\ seek_position > 0
    /\ pause_start # NoneTime

----------------------------------------------------------------------------
(* Claims about clear() *)

\* C26: clear() leaves the pending queue empty and no track that was pending with
\* its file on disk, and leaves the history, entries and order, as it was.
C26_ClearReleasesPending ==
    [][Clear =>
          /\ queue' = <<>>
          /\ \A s \in Range(queue) : s \in file_path => url(s) \notin files'
          /\ history' = history]_vars

\* the queue was cleared of a downloaded track while the history had an entry (no
\* other step of ClearSpec deletes a file)
C26_Witness ==
    /\ queue = <<>>
    /\ history # <<>>
    /\ \E s \in file_path : url(s) \notin files

----------------------------------------------------------------------------
(* Claims about the cache *)

\* C27: get(key) returns the stored value if the entry's expiry time lies ahead
\* and leaves the store as it is; on an entry whose expiry time has been reached
\* it returns None and removes that entry and no other.
C27_GetHonoursExpiry ==
    [][\A key \in CacheKeys :
          (key \in DOMAIN memory_cache /\ CacheGetOf(key)) =>
              IF now < memory_cache[key].expires_at
                THEN /\ result'.val = memory_cache[key].value
                     /\ memory_cache' = memory_cache
                ELSE /\ result'.val = None
                     /\ DOMAIN memory_cache' = (DOMAIN memory_cache) \ {key}
                     /\ \A k \in DOMAIN memory_cache' : memory_cache'[k] = memory_cache[k]]_vars

\* a get has returned the value of an entry whose expiry time lies ahead, while
\* the other entry has reached its expiry time and is still in the store
C27_Witness ==
    /\ result.val \in CacheValues
    /\ \E k \in DOMAIN memory_cache :
          memory_cache[k].value = result.val /\ memory_cache[k].expires_at > now
    /\ \E k \in DOMAIN memory_cache : memory_cache[k].expires_at <= now

\* C28: an entry whose expiry time has passed is eventually removed from the
\* store, whether or not anything is read or any command is given.
C28_ExpiredEventuallyRemoved ==
    \A key \in CacheKeys :
        (key \in DOMAIN memory_cache /\ memory_cache[key].expires_at <= now)
            ~> (key \notin DOMAIN memory_cache)

----------------------------------------------------------------------------
(* Claims about concurrent executions *)

\* C29: at most one _play_next call is in progress at any time: none has pulled a
\* track and stands before its gather, or before its retry, while another still
\* waits in its gather.
C29_OneAdvanceAtATime ==
    ~(in_gather > 0 /\ pc \in {"play", "replay", "retry"})

\* C30: under any interleaving of two tasks' calls of add_song, add_songs,
\* get_next_song, remove_song, move_song, shuffle, unshuffle, clear and
\* remove_user_songs, at most one call is inside a method body, and when a call
\* returns, the queue, the history, the shuffle flag and the saved order are what
\* its method makes of the fields it found when it got the lock (so the calls
\* take effect one after the other, in the order in which they got the lock),
\* with the snapshot of just that state if the method saves.
C30_MethodsAreAtomic ==
    [][/\ Cardinality({t \in Tasks : calls'[t].pc = "locked"}) <= 1
       /\ \A t \in Tasks :
            MethodReturns(t) =>
                \E p \in Permutations(1..Len(calls[t].before.queue)) :
                    LET out == Effect(calls[t].call, p, calls[t].before) IN
                    /\ Fields(queue', history', shuffle_mode', original_queue') = out.fields
                    /\ out.saves =>
                          queue_state' = Snapshot(out.fields.queue,
                                                  out.fields.shuffle_mode, now)]_vars

\* one task is inside a body that has changed the queue and not yet saved it,
\* while the other task waits for the lock
C30_Witness ==
    \E t \in Tasks, u \in Tasks :
        /\ calls[t].pc = "locked"
        /\ calls[t].before.queue # queue
        /\ calls[u].pc = "waiting"

----------------------------------------------------------------------------
(* Claims about the history *)

\* C31: every track in the history is a track whose playback was started (its
\* start timestamp was set by _play_song), or is the track that the advance has
\* just pulled and is about to start.
C31_HistoryHoldsStartedTracks ==
    \A i \in DOMAIN history :
        \/ Truthy(start_time[history[i]])
        \/ history[i] = current_song /\ pc \in {"play", "replay"}

----------------------------------------------------------------------------
(* Claims about the pause bookkeeping *)

\* C32: in every reachable state, if pause_start is set then is_playing is true.
C32_PauseStartOnlyWhilePlaying ==
    pause_start # NoneTime => is_playing

----------------------------------------------------------------------------
(* Claims about the position-refresh task *)

C34_HistoryBoundedEvictionDeferred ==
    [][/\ Len(history') <= max_history
       /\ (pc' \in {"play", "replay"} /\ pc \notin {"play", "replay"}) =>
            /\ history' = IF Len(history) >= max_history
                            THEN Append(Tail(history), current_song')
                            ELSE Append(history, current_song')
            /\ files \subseteq files'
            /\ delayed_cleanup \subseteq delayed_cleanup'
            /\ \A task \in delayed_cleanup' \ delayed_cleanup :
                    task = <<Head(history), now + delay>>
       /\ \A task \in delayed_cleanup \ delayed_cleanup' : now >= task[2]
       /\ (files \subseteq files') \/ (delayed_cleanup' # delayed_cleanup)]_vars

\* the file of a track that was evicted from a full history has been deleted, by
\* its cleanup task, while a later track is in the history
C34_Witness ==
    /\ Len(history) = max_history
    /\ delayed_cleanup = {}
    /\ \E s \in file_path : s \notin Range(history) /\ url(s) \notin files

----------------------------------------------------------------------------
(* Claims about unshuffle and the shuffle flag *)

\* C35: every track that is pending just before an unshuffle() is still pending
\* just after it, tracks enqueued after the shuffle included.
C35_UnshuffleKeepsPending ==
    [][Unshuffle => Range(queue) \subseteq Range(queue')]_vars

----------------------------------------------------------------------------
(* Claims about the files of the current and the pending tracks *)

\* C36: no step deletes the file of a track that is the current track or is
\* pending when the step is done: neither a delayed cleanup nor clear() takes the
\* file of a track that plays or still waits to play.
C36_FileKeptWhileCurrentOrPending ==
    [][\A s \in (Range(queue') \cup {current_song'}) \ {NoSong} :
          is_downloaded(s, file_path, files) => url(s) \in files']_vars

----------------------------------------------------------------------------
(* Claims about requests *)

\* C37: a requested track (one Song object per request) is pending at most once,
\* and is not pending while it is the current track: it is put into the queue
\* once and played once.
C37_OneEntryPerRequest ==
    \A s \in Songs :
        Cardinality({i \in DOMAIN queue : queue[i] = s})
            + (IF current_song = s THEN 1 ELSE 0) <= 1

----------------------------------------------------------------------------
(* Claims about the errors of the advance *)

\* C38: _play_next calls itself from its exception handler, and so pulls the
\* following track or ends the session, only when the playback of the pulled
\* track has not started: not while the voice client plays that track.
C38_AdvanceOnlyAfterFailedStart ==
    [][(pc = "retry" /\ PlayNext) => voice # "playing"]_vars


\* C39: in every reachable state, if the shuffle flag is set then a non-empty
\* saved order exists (so that unshuffle() restores an order and clears the flag).
C39_FlagImpliesSavedOrder ==
    shuffle_mode => original_queue # <<>>

----------------------------------------------------------------------------
(* Claims about the ttl of a cache entry *)

\* C40: set(key, value, ttl) with a ttl that is given, 0 included, stores an entry
\* that expires ttl after the time of the call; with no ttl it stores one that
\* expires default_ttl after it.
C40_SetHonoursGivenTtl ==
    [][\A key \in CacheKeys, value \in CacheValues, ttl \in Ttls :
          CacheSetOf(key, value, ttl) =>
              memory_cache'[key].expires_at =
                  now + (IF ttl = NoneTime THEN default_ttl ELSE ttl)]_vars

====
